---- MODULE Spec2Model ----
(***************************************************************************)
(* Model of brevitas/graph/generator.py: ModuleGenerator.                  *)
(* A ModuleGenerator walks a Trace (a list of TraceElem) and builds a      *)
(* schedule of Instructions plus an output module tree, then resolves the  *)
(* free references of the schedule into constants.                         *)
(***************************************************************************)
EXTENDS Integers, Sequences, FiniteSets, TLC

VARIABLES
    gen_module_allowlist,          \* self.gen_module_allowlist
    gen_module_blocklist,          \* self.gen_module_blocklist
    _generated_allowlist_modules,  \* self._generated_allowlist_modules
    trace,                         \* the Trace handed to gen_model
    pc,                            \* position inside gen_model
    elem_i,                        \* loop index of _gen_schedule (1-based)
    schedule,                      \* the local list `schedule`
    raw_schedule,                  \* history: schedule as _gen_schedule returned it
    output_model,                  \* the CodegenModule built by this call
    consts,                        \* result of _gen_constants_parameters
    params,
    disp,                          \* history: per element, what _gen_schedule did
    results,                       \* history: per finished call, what gen_model gave
    attach_log                     \* history: the _add_module calls on output_model

vars == << gen_module_allowlist, gen_module_blocklist, _generated_allowlist_modules,
           trace, pc, elem_i, schedule, raw_schedule, output_model, consts, params,
           disp, results, attach_log >>

(***************************************************************************)
(* Bounds of the model.                                                    *)
(***************************************************************************)
MaxTraceLen == 2
MaxCalls == 2
MaxAttach == 2

(***************************************************************************)
(* Small helpers.                                                          *)
(***************************************************************************)
Min(a, b) == IF a <= b THEN a ELSE b

Reverse(s) == [k \in 1..Len(s) |-> s[Len(s) + 1 - k]]

Range(s) == {s[k] : k \in 1..Len(s)}

\* str.startswith on strings written as sequences of name segments
StartsWith(s, p) == Len(p) <= Len(s) /\ SubSeq(s, 1, Len(p)) = p

(***************************************************************************)
(* Modules (objects) and their classes.                                    *)
(***************************************************************************)
Modules == {"net", "seq", "blk", "enc", "conv", "lin", "act", "leaf", "scr"}

\* fully qualified class name of each module object
ClassName ==
    [m \in Modules |->
        CASE m = "net"  -> <<"user", "Net">>
          [] m = "seq"  -> <<"torch", "nn", "Sequential">>
          [] m = "blk"  -> <<"torch", "nn", "Block">>
          [] m = "enc"  -> <<"torch", "nn", "Encoder">>
          [] m = "conv" -> <<"torch", "nn", "Conv">>
          [] m = "lin"  -> <<"brevitas", "nn", "QuantLinear">>
          [] m = "act"  -> <<"user", "Act">>
          [] m = "leaf" -> <<"user", "Leaf">>
          [] m = "scr"  -> <<"torch", "jit", "Script">>]

\* the classes each module object is an instance of
ClassesOf ==
    [m \in Modules |->
        CASE m = "net"  -> {"Module", "Net"}
          [] m = "seq"  -> {"Module", "Sequential"}
          [] m = "blk"  -> {"Module", "Block"}
          [] m = "enc"  -> {"Module", "Encoder"}
          [] m = "conv" -> {"Module", "Conv"}
          [] m = "lin"  -> {"Module", "QuantLinear"}
          [] m = "act"  -> {"Module", "Act"}
          [] m = "leaf" -> {"Module", "Leaf"}
          [] m = "scr"  -> {"Module", "ScriptModule"}]

module_class_name(module) == ClassName[module]

\* entries of an allowlist / blocklist: a name prefix or a class
StrEntry(s) == [kind |-> "str", str |-> s]
ClassEntry(c) == [kind |-> "class", cls |-> c]

default_gen_module_allowlist ==
    << StrEntry(<<"torch", "nn">>), StrEntry(<<"brevitas", "nn">>) >>

default_gen_module_blocklist ==
    << ClassEntry("Sequential"), ClassEntry("ModuleList"), ClassEntry("ModuleDict") >>

\* the configurations a ModuleGenerator is constructed with
Configs ==
    { [allow |-> default_gen_module_allowlist, block |-> default_gen_module_blocklist],
      [allow |-> << StrEntry(<<"torch">>) >>, block |-> << StrEntry(<<"torch", "jit">>) >>],
      [allow |-> << ClassEntry("Module") >>, block |-> << ClassEntry("Sequential") >>] }

(***************************************************************************)
(* Classifier.                                                             *)
(***************************************************************************)
\* one entry gm of a list against a module: the two `output |=` terms
EntryMatches(gm, module) ==
    \/ gm.kind = "str" /\ StartsWith(module_class_name(module), gm.str)
    \/ gm.kind = "class" /\ gm.cls \in ClassesOf[module]

_is_module_in_gen_list(module, gen_list) ==
    \E k \in 1..Len(gen_list) : EntryMatches(gen_list[k], module)

_is_module_in_gen_blocklist(module) ==
    _is_module_in_gen_list(module, gen_module_blocklist)

_is_module_in_gen_allowlist(module) ==
    _is_module_in_gen_list(module, gen_module_allowlist)

\* the scan with the blocklist test left out
ParentScanNoBlock(context, k, output) ==
    IF k > Len(context) THEN output
    ELSE LET hits == {j \in k..Len(context) : _is_module_in_gen_allowlist(context[j])}
         IN IF hits = {} THEN output
            ELSE context[CHOOSE j \in hits : \A h \in hits : h <= j]

\* the loop over `context`: `output` is overwritten by every matching module
RECURSIVE ParentScan(_, _, _)
ParentScan(context, k, output) ==
    IF k > Len(context) THEN output
    ELSE LET c == context[k]
             hit == /\ \E g \in 1..Len(gen_module_allowlist) :
                            EntryMatches(gen_module_allowlist[g], c)
                    /\ ~ _is_module_in_gen_blocklist(c)
         IN ParentScan(context, k + 1, IF hit THEN c ELSE output)

\* "None" when no parent has to be preserved as-is
_parent_in_gen_allowlist(trace_elem) ==
    LET mcl == trace_elem.module_context_list
        context == Reverse(SubSeq(mcl, 1, Len(mcl) - 1))
    IN ParentScan(context, 1, "None")

(***************************************************************************)
(* Generation-state tracker.                                               *)
(***************************************************************************)
\* object identity (`is`) between a module and an entry of the tracker list
ModuleObject(m) == [kind |-> "module", name |-> m]
TupleObject(k) == [kind |-> "tuple", pos |-> k]

\* all([i is mi for i, mi in zip(i_list, module_input_list)])
SameInput(i_list, module_input_list) ==
    \A j \in 1..Min(Len(i_list), Len(module_input_list)) : i_list[j] = module_input_list[j]

\* same_output left out of the comparison
AlreadyGenIgnoreOutput(module, trace_elem) ==
    \E k \in 1..Len(_generated_allowlist_modules) :
        LET g == _generated_allowlist_modules[k]
        IN g.m = module /\ SameInput(g.i_list, trace_elem.module_input_list)

\* only the loop over the parents, which compares a module with a tuple
AlreadyGenParentsOnly(module, trace_elem) ==
    \E j \in 1..Len(trace_elem.module_context_list) :
        \E k \in 1..Len(_generated_allowlist_modules) :
            ModuleObject(trace_elem.module_context_list[j]) = TupleObject(k)

\* `is_already_gen =` in place of `is_already_gen |=`: the last entry decides
AlreadyGenLastEntryOnly(module, trace_elem) ==
    /\ _generated_allowlist_modules # <<>>
    /\ LET g == _generated_allowlist_modules[Len(_generated_allowlist_modules)]
       IN /\ g.m = module
          /\ SameInput(g.i_list, trace_elem.module_input_list)
          /\ g.o = trace_elem.module_output

_is_module_already_gen(module, trace_elem) ==
    \/ \E k \in 1..Len(_generated_allowlist_modules) :
          LET g == _generated_allowlist_modules[k]
          IN /\ g.m = module
             /\ SameInput(g.i_list, trace_elem.module_input_list)
             /\ g.o = trace_elem.module_output
    \/ \E j \in 1..Len(trace_elem.module_context_list) :
          \E k \in 1..Len(_generated_allowlist_modules) :
              ModuleObject(trace_elem.module_context_list[j]) = TupleObject(k)


(***************************************************************************)
(* Values of the trace: Index references and the objects they address.     *)
(***************************************************************************)
Indices == {"ix", "iy", "iz", "iw", "ip", "in"}

\* the runtime objects: three activations, a scalar buffer, a scalar
\* Parameter and the value None
ObjInfo ==
    [o \in {"tx", "ty", "tz", "tw", "tp", "none"} |->
        CASE o = "tw"   -> [type |-> "Tensor", numel |-> 1, item |-> 3]
          [] o = "tp"   -> [type |-> "Parameter", numel |-> 1, item |-> 5]
          [] o = "none" -> [type |-> "NoneType", numel |-> 0, item |-> 0]
          [] OTHER      -> [type |-> "Tensor", numel |-> 4, item |-> 0]]

\* trace.index_map: Index -> underlying value
index_map ==
    [i \in Indices |->
        CASE i = "ix" -> "tx"
          [] i = "iy" -> "ty"
          [] i = "iz" -> "tz"
          [] i = "iw" -> "tw"
          [] i = "ip" -> "tp"
          [] i = "in" -> "none"]

\* trace.index_from_val: the Index that addresses a value
index_from_val(value) == CHOOSE i \in DOMAIN index_map : index_map[i] = value

\* isinstance(v, Tensor): Parameter is a subclass of Tensor
IsTensor(obj) == ObjInfo[obj].type \in {"Tensor", "Parameter"}

\* isinstance(c, Parameter) for a key c of const_index_list: c is an Index
IsParameterKey(c) == "Index" = "Parameter"

(***************************************************************************)
(* Argument structures: nested lists, tuples and mappings with leaves.     *)
(***************************************************************************)
Ref(i) == [k |-> "ref", ref |-> i]
Val(v) == [k |-> "val", val |-> v]
List(s) == [k |-> "list", items |-> s]
Tuple(s) == [k |-> "tuple", items |-> s]
Dict(ks, vs) == [k |-> "dict", keys |-> ks, vals |-> vs]

\* utils.flatten: the leaves of nested lists and tuples, in order
RECURSIVE flatten(_)
flatten(container) ==
    IF container = <<>> THEN <<>>
    ELSE LET h == Head(container)
         IN (IF h.k \in {"list", "tuple"} THEN flatten(h.items) ELSE <<h>>)
            \o flatten(Tail(container))

(***************************************************************************)
(* Instruction synthesizer.                                                *)
(***************************************************************************)
Instruction(output_index, fn, fn_type, input_args_list, input_kwargs_dict, prefix) ==
    [output_index |-> output_index, fn |-> fn, fn_type |-> fn_type,
     input_args_list |-> input_args_list, input_kwargs_dict |-> input_kwargs_dict,
     prefix |-> prefix]

\* the module instruction with its input references in reverse order
_module_instruction_swapped(module, trace_elem) ==
    Instruction(index_from_val(trace_elem.module_output), module, "MODULE",
                List(Reverse([j \in 1..Len(trace_elem.module_input_list) |->
                                 Ref(index_from_val(trace_elem.module_input_list[j]))])),
                Dict(<<>>, <<>>), trace_elem.prefix)

\* the instruction part of _module_instruction (the attach is AttachModule)
_module_instruction(module, trace_elem) ==
    LET iil == [j \in 1..Len(trace_elem.module_input_list) |->
                   Ref(index_from_val(trace_elem.module_input_list[j]))]
        module_output_index == index_from_val(trace_elem.module_output)
    IN Instruction(module_output_index, module, "MODULE", List(iil), Dict(<<>>, <<>>),
                   trace_elem.prefix)

_torch_fn_instruction(trace_elem) ==
    Instruction(trace_elem.fn_out_index, trace_elem.fn, trace_elem.fn_type,
                trace_elem.fn_args_index, trace_elem.fn_kwargs_index, trace_elem.prefix)

_tensor_fn_instruction(trace_elem) ==
    Instruction(trace_elem.fn_out_index, trace_elem.fn, trace_elem.fn_type,
                trace_elem.fn_args_index, trace_elem.fn_kwargs_index, trace_elem.prefix)

\* the called module handled like a script module, by _module_instruction
_module_fn_instruction_as_module(trace_elem) ==
    _module_instruction(trace_elem.fn, trace_elem)

\* the instruction part of _module_fn_instruction
_module_fn_instruction(trace_elem) == _torch_fn_instruction(trace_elem)

(***************************************************************************)
(* Hierarchy builder: the output module tree.                              *)
(* A tree maps a node to its _modules, an ordered list of (name, child).   *)
(***************************************************************************)
RootNode == [kind |-> "root", name |-> "", n |-> 0]
ModuleNode(m) == [kind |-> "module", name |-> m, n |-> 0]
ContainerNode(c) == [kind |-> "container", name |-> "", n |-> c]

\* CodegenModule(): an empty container; `created` counts the Module() made
EmptyModel ==
    [tree |-> (RootNode :> <<>>), created |-> 0,
     schedule |-> <<>>, input_index_list |-> <<>>, output_index_list |-> <<>>]

Children(tree, node) == IF node \in DOMAIN tree THEN tree[node] ELSE <<>>

HasChild(tree, node, name) ==
    \E k \in 1..Len(Children(tree, node)) : Children(tree, node)[k].name = name

\* supermodule._modules[name]
ChildNamed(tree, node, name) ==
    LET kids == Children(tree, node)
    IN kids[CHOOSE k \in 1..Len(kids) : kids[k].name = name].node

\* Module.add_module: self._modules[name] = module
add_module(tree, node, name, module) ==
    LET kids == Children(tree, node)
        entry == [name |-> name, node |-> module]
        new == IF HasChild(tree, node, name)
               THEN [k \in 1..Len(kids) |-> IF kids[k].name = name THEN entry ELSE kids[k]]
               ELSE Append(kids, entry)
    IN [x \in DOMAIN tree \cup {node} |-> IF x = node THEN new ELSE tree[x]]

\* Module.named_modules: depth first, each module object once (memo), with
\* the dotted name as a sequence of segments
RECURSIVE named_modules(_, _, _, _)
RECURSIVE NamedChildren(_, _, _, _, _, _)
named_modules(tree, node, memo, prefix) ==
    IF node \in memo THEN [list |-> <<>>, memo |-> memo]
    ELSE NamedChildren(tree, Children(tree, node), 1, memo \cup {node}, prefix,
                       << [name |-> prefix, node |-> node] >>)

NamedChildren(tree, kids, k, memo, prefix, acc) ==
    IF k > Len(kids) THEN [list |-> acc, memo |-> memo]
    ELSE LET r == named_modules(tree, kids[k].node, memo, Append(prefix, kids[k].name))
         IN NamedChildren(tree, kids, k + 1, r.memo, prefix, acc \o r.list)

\* `prefix in submodule_names`
InSubmoduleNames(tree, supermodule, prefix) ==
    LET nm == named_modules(tree, supermodule, {}, <<>>).list
    IN \E k \in 1..Len(nm) : nm[k].name = <<prefix>>

\* the walk that makes a new container for every prefix, found or not
AddWalkAlwaysCreate(model, supermodule, prefix_list, k) ==
    IF k > Len(prefix_list) THEN [model |-> model, supermodule |-> supermodule]
    ELSE LET n == Len(prefix_list) - k + 1
             chain == [j \in 0..n |->
                          IF j = 0 THEN supermodule ELSE ContainerNode(model.created + j)]
             step(t, j) == add_module(t, chain[j - 1], prefix_list[k + j - 1], chain[j])
             t1 == step(model.tree, 1)
             t2 == IF n >= 2 THEN step(t1, 2) ELSE t1
             t3 == IF n >= 3 THEN step(t2, 3) ELSE t2
         IN [model |-> [model EXCEPT !.tree = t3, !.created = model.created + n],
             supermodule |-> chain[n]]

\* the loop over prefix_list: descend into, or create, each container
RECURSIVE AddWalk(_, _, _, _)
AddWalk(model, supermodule, prefix_list, k) ==
    IF k > Len(prefix_list) THEN [model |-> model, supermodule |-> supermodule]
    ELSE LET prefix == prefix_list[k]
         IN IF InSubmoduleNames(model.tree, supermodule, prefix)
            THEN AddWalk(model, ChildNamed(model.tree, supermodule, prefix),
                         prefix_list, k + 1)
            ELSE LET submodule == ContainerNode(model.created + 1)
                     t == add_module(model.tree, supermodule, prefix, submodule)
                 IN AddWalk([model EXCEPT !.tree = t, !.created = model.created + 1],
                            submodule, prefix_list, k + 1)

_add_module(module, module_name, prefix_list, model) ==
    LET w == AddWalk(model, RootNode, prefix_list, 1)
    IN [w.model EXCEPT
           !.tree = add_module(w.model.tree, w.supermodule, module_name, ModuleNode(module))]

\* the attach part of _module_instruction
ModuleInstructionAttach(module, trace_elem, model) ==
    LET pl == trace_elem.prefix_list
    IN _add_module(module, pl[Len(pl)], SubSeq(pl, 1, Len(pl) - 1), model)

\* the attach part of _module_fn_instruction
ModuleFnInstructionAttach(trace_elem, model) ==
    _add_module(trace_elem.fn, trace_elem.module_fn_name, trace_elem.prefix_list, model)

(***************************************************************************)
(* Constant / parameter resolver.                                          *)
(***************************************************************************)
\* [i for inst in schedule for i in inst.input_args_list]
RECURSIVE AllArgs(_, _)
AllArgs(sched, k) ==
    IF k > Len(sched) THEN <<>>
    ELSE sched[k].input_args_list.items \o AllArgs(sched, k + 1)

\* [i for inst in schedule for n, i in inst.input_kwargs_dict.items()]
RECURSIVE AllKwargs(_, _)
AllKwargs(sched, k) ==
    IF k > Len(sched) THEN <<>>
    ELSE sched[k].input_kwargs_dict.vals \o AllKwargs(sched, k + 1)

\* the key a flattened leaf is used as: an Index, or the leaf itself
LeafKey(leaf) == IF leaf.k = "ref" THEN leaf.ref ELSE "not-an-index"

input_index_list(sched) == flatten(AllArgs(sched, 1)) \o flatten(AllKwargs(sched, 1))

\* the keys of const_index_list: consumed, not a model input, not an output
const_index_list(sched, tr) ==
    LET output_index_list == {sched[k].output_index : k \in 1..Len(sched)}
        keys == {LeafKey(l) : l \in Range(input_index_list(sched))}
    IN (keys \ Range(tr.model_input_index_list)) \ output_index_list

\* v.item() if isinstance(v, Tensor) else v
ConstValue(obj) ==
    IF IsTensor(obj)
    THEN [type |-> "float", numel |-> 0, item |-> ObjInfo[obj].item]
    ELSE ObjInfo[obj]

_gen_constants_parameters(sched, tr) ==
    LET cil == const_index_list(sched, tr)
        ckeys == {c \in cil : ~ IsParameterKey(c)}
        pkeys == {c \in cil : IsParameterKey(c)}
    IN IF \E c \in cil : c \notin DOMAIN index_map
       THEN [status |-> "KeyError", consts |-> <<>>, params |-> <<>>]
       ELSE IF \E c \in ckeys : IsTensor(index_map[c]) /\ ObjInfo[index_map[c]].numel # 1
       THEN [status |-> "ItemError", consts |-> <<>>, params |-> <<>>]
       ELSE IF "None" \in ckeys
       THEN [status |-> "RuntimeError", consts |-> <<>>, params |-> <<>>]
       ELSE [status |-> "ok",
             consts |-> [c \in ckeys |-> ConstValue(index_map[c])],
             params |-> [c \in pkeys |-> ObjInfo[index_map[c]]]]

RECURSIVE _solve_consts_params(_, _, _)
\* the substitution with the tuple case left out
SolveNoTuple(arg, cs, ps) ==
    IF arg.k = "list"
    THEN List([j \in 1..Len(arg.items) |-> _solve_consts_params(arg.items[j], cs, ps)])
    ELSE IF arg.k = "dict"
    THEN Dict(arg.keys,
              [j \in 1..Len(arg.vals) |-> _solve_consts_params(arg.vals[j], cs, ps)])
    ELSE IF arg.k = "ref"
    THEN IF arg.ref \in DOMAIN cs THEN Val(cs[arg.ref])
         ELSE IF arg.ref \in DOMAIN ps THEN Val(ps[arg.ref])
         ELSE arg
    ELSE arg

_solve_consts_params(arg, cs, ps) ==
    IF arg.k = "list"
    THEN List([j \in 1..Len(arg.items) |-> _solve_consts_params(arg.items[j], cs, ps)])
    ELSE IF arg.k = "tuple"
    THEN Tuple([j \in 1..Len(arg.items) |-> _solve_consts_params(arg.items[j], cs, ps)])
    ELSE IF arg.k = "dict"
    THEN Dict(arg.keys,
              [j \in 1..Len(arg.vals) |-> _solve_consts_params(arg.vals[j], cs, ps)])
    ELSE IF arg.k = "ref"
    THEN IF arg.ref \in DOMAIN cs THEN Val(cs[arg.ref])
         ELSE IF arg.ref \in DOMAIN ps THEN Val(ps[arg.ref])
         ELSE arg
    ELSE arg

_apply_consts_params(sched, cs, ps) ==
    [k \in 1..Len(sched) |->
        [sched[k] EXCEPT
            !.input_args_list = _solve_consts_params(sched[k].input_args_list, cs, ps),
            !.input_kwargs_dict = _solve_consts_params(sched[k].input_kwargs_dict, cs, ps)]]

(***************************************************************************)
(* The traces handed to gen_model.                                         *)
(***************************************************************************)
\* where an operation sits: its module context (outermost first), the
\* innermost module's inputs and output, and its name path
Site(mcl, mil, mout) ==
    [module_context_list |-> mcl, module_input_list |-> mil, module_output |-> mout,
     prefix_list |-> mcl]

SiteNet    == Site(<<"net">>, <<"tx">>, "tz")
SiteConv1  == Site(<<"net", "conv">>, <<"tx">>, "ty")
SiteConv2  == Site(<<"net", "conv">>, <<"tx">>, "tz")
SiteConv3  == Site(<<"net", "conv">>, <<"tx", "tw">>, "ty")
SiteConv4  == Site(<<"net", "conv">>, <<>>, "ty")
SiteSeq    == Site(<<"net", "seq", "conv">>, <<"tx">>, "ty")
SiteNested == Site(<<"net", "blk", "enc", "conv">>, <<"tx">>, "ty")
SiteLin    == Site(<<"net", "blk", "lin">>, <<"ty">>, "tz")
SiteAct    == Site(<<"net", "act">>, <<"ty">>, "tz")
SiteBlkAct == Site(<<"net", "blk", "act">>, <<"ty">>, "tz")

Sites == {SiteNet, SiteConv1, SiteConv2, SiteConv3, SiteConv4, SiteSeq, SiteNested,
          SiteLin, SiteAct, SiteBlkAct}

\* what the tracer saw each enclosing (non-innermost) module consume and return
DeclaredIO ==
    [m \in {"net", "seq", "blk", "enc"} |->
        CASE m = "net" -> [ins |-> <<"tx">>, out |-> "tz"]
          [] m = "seq" -> [ins |-> <<"tx">>, out |-> "ty"]
          [] m = "blk" -> [ins |-> <<"tx">>, out |-> "tz"]
          [] m = "enc" -> [ins |-> <<"tx">>, out |-> "ty"]]

TraceElem(site, fn_type, fn, args, kwargs, out) ==
    [module_context_list |-> site.module_context_list,
     module_input_list |-> site.module_input_list,
     module_output |-> site.module_output,
     prefix_list |-> site.prefix_list,
     prefix |-> site.prefix_list,
     fn |-> fn, fn_type |-> fn_type,
     module_fn_name |-> IF fn_type = "MODULE" THEN fn ELSE "",
     fn_args_index |-> args, fn_kwargs_index |-> kwargs, fn_out_index |-> out]

\* an operation on the innermost module's own inputs and output
PlainElem(site, fn_type, fn) ==
    TraceElem(site, fn_type, fn,
              Tuple([j \in 1..Len(site.module_input_list) |->
                        Ref(index_from_val(site.module_input_list[j]))]),
              Dict(<<>>, <<>>), index_from_val(site.module_output))

NoKw == Dict(<<>>, <<>>)

Elems ==
    {PlainElem(s, "FUNCTION", "relu") : s \in Sites}
    \cup {PlainElem(SiteNet, "METHOD", "add_"), PlainElem(SiteNet, "ATTRIBUTE", "shape"),
          PlainElem(SiteNet, "MODULE", "leaf"), PlainElem(SiteNet, "SCRIPTMODULE", "scr"),
          PlainElem(SiteConv1, "MODULE", "leaf"),
          PlainElem(SiteConv1, "SCRIPTMODULE", "scr"),
          PlainElem(SiteNested, "MODULE", "leaf")}
    \cup {TraceElem(SiteNet, "FUNCTION", "relu", Tuple(<<Ref("iy")>>), NoKw, "iz"),
          TraceElem(SiteNet, "FUNCTION", "mul", Tuple(<<Ref("iy"), Ref("iw")>>), NoKw, "iz"),
          TraceElem(SiteNet, "FUNCTION", "cat",
                    Tuple(<<List(<<Ref("iy"), Tuple(<<Ref("iw"), Ref("in")>>)>>)>>),
                    Dict(<<"a">>, <<Ref("ip")>>), "iz"),
          TraceElem(SiteNet, "METHOD", "add_", Tuple(<<Ref("iw")>>), NoKw, "iw"),
          TraceElem(SiteNet, "FUNCTION", "mul", Tuple(<<Ref("ix")>>),
                    Dict(<<"b">>, <<List(<<Ref("iw")>>)>>), "iy")}

ModelIO ==
    { [ins |-> <<"ix">>, outs |-> <<"iz">>],
      [ins |-> <<"ix", "iy">>, outs |-> <<"iy">>] }

Trace(elems, io) ==
    [trace_elem_list |-> elems, model_input_index_list |-> io.ins,
     model_output_index_list |-> io.outs]

Traces ==
    {Trace(e, io) : e \in UNION {[1..n -> Elems] : n \in 0..MaxTraceLen}, io \in ModelIO}

NoTrace == Trace(<<>>, [ins |-> <<>>, outs |-> <<>>])

(***************************************************************************)
(* Schedule builder and gen_model, one action per step.                    *)
(***************************************************************************)
CurElem == trace.trace_elem_list[elem_i]

\* module = trace_elem.module_context_list[-1]
InnerModule(trace_elem) ==
    trace_elem.module_context_list[Len(trace_elem.module_context_list)]

InAllowlist(trace_elem) ==
    /\ _is_module_in_gen_allowlist(InnerModule(trace_elem))
    /\ ~ _is_module_in_gen_blocklist(InnerModule(trace_elem))

Ctx(trace_elem) ==
    [m |-> InnerModule(trace_elem), i_list |-> trace_elem.module_input_list,
     o |-> trace_elem.module_output]

InLoop == pc = "schedule" /\ elem_i <= Len(trace.trace_elem_list)

LogAttach(module, name, prefix_list, before, after) ==
    Append(attach_log, [module |-> module, module_name |-> name,
                        prefix_list |-> prefix_list,
                        created |-> after.created - before.created])

\* self.gen_model(trace), up to the first iteration of _gen_schedule
GenModel(t) ==
    /\ pc = "idle"
    /\ Len(results) < MaxCalls
    /\ trace' = t
    /\ pc' = "schedule"
    /\ elem_i' = 1
    /\ schedule' = <<>>
    /\ raw_schedule' = <<>>
    /\ output_model' = EmptyModel
    /\ consts' = <<>>
    /\ params' = <<>>
    /\ disp' = <<>>
    /\ attach_log' = <<>>
    /\ results' = Append(results, [status |-> "running",
                                   start_tracker |-> _generated_allowlist_modules,
                                   model |-> EmptyModel])
    /\ UNCHANGED << gen_module_allowlist, gen_module_blocklist,
                    _generated_allowlist_modules >>

\* the first gen_model call on the generator, on any trace
FirstCall == results = <<>> /\ \E t \in Traces : GenModel(t)

\* a further gen_model call on the same generator, with the same trace
RepeatCall == results # <<>> /\ GenModel(trace)

\* a loop iteration that appends inst built by _module_instruction(module, ...)
EmitModule(branch, module, record) ==
    LET e == CurElem
        pl == e.prefix_list
        after == ModuleInstructionAttach(module, e, output_model)
    IN /\ _generated_allowlist_modules' =
              IF record THEN Append(_generated_allowlist_modules, Ctx(e))
              ELSE _generated_allowlist_modules
       /\ output_model' = after
       /\ attach_log' = LogAttach(module, pl[Len(pl)], SubSeq(pl, 1, Len(pl) - 1),
                                  output_model, after)
       /\ schedule' = Append(schedule, _module_instruction(module, e))
       /\ disp' = Append(disp, [branch |-> branch, pos |-> Len(schedule) + 1])
       /\ elem_i' = elem_i + 1
       /\ UNCHANGED << gen_module_allowlist, gen_module_blocklist, trace, pc,
                       raw_schedule, consts, params, results >>

\* if parent_in_allowlist is not None and not m_already_gen
TakesAncestor ==
    /\ InLoop
    /\ _parent_in_gen_allowlist(CurElem) # "None"
    /\ ~ _is_module_already_gen(InnerModule(CurElem), CurElem)

StepAncestor ==
    /\ TakesAncestor
    /\ EmitModule("ancestor", _parent_in_gen_allowlist(CurElem), TRUE)

\* elif in_allowlist and not m_already_gen
TakesDirect ==
    /\ InLoop
    /\ _parent_in_gen_allowlist(CurElem) = "None"
    /\ InAllowlist(CurElem)
    /\ ~ _is_module_already_gen(InnerModule(CurElem), CurElem)

StepDirect ==
    /\ TakesDirect
    /\ EmitModule("direct", InnerModule(CurElem), TRUE)

\* elif in_allowlist and m_already_gen: continue
TakesSkip ==
    /\ InLoop
    /\ InAllowlist(CurElem)
    /\ _is_module_already_gen(InnerModule(CurElem), CurElem)

StepSkip ==
    /\ TakesSkip
    /\ disp' = Append(disp, [branch |-> "skip", pos |-> 0])
    /\ elem_i' = elem_i + 1
    /\ UNCHANGED << gen_module_allowlist, gen_module_blocklist,
                    _generated_allowlist_modules, trace, pc, schedule, raw_schedule,
                    output_model, consts, params, results, attach_log >>

\* the else branch is taken
InDispatch ==
    /\ InLoop
    /\ ~ InAllowlist(CurElem)
    /\ \/ _parent_in_gen_allowlist(CurElem) = "None"
       \/ _is_module_already_gen(InnerModule(CurElem), CurElem)

\* a dispatch iteration that appends inst and leaves the tree alone
EmitPlain(inst) ==
    /\ schedule' = Append(schedule, inst)
    /\ disp' = Append(disp, [branch |-> "dispatch", pos |-> Len(schedule) + 1])
    /\ elem_i' = elem_i + 1
    /\ UNCHANGED << gen_module_allowlist, gen_module_blocklist,
                    _generated_allowlist_modules, trace, pc, raw_schedule,
                    output_model, consts, params, results, attach_log >>

\* trace_elem.fn_type == FnType.MODULE
DispatchesModule == InDispatch /\ CurElem.fn_type = "MODULE"

StepDispatchModule ==
    /\ DispatchesModule
    /\ LET e == CurElem
           after == ModuleFnInstructionAttach(e, output_model)
       IN /\ output_model' = after
          /\ attach_log' = LogAttach(e.fn, e.module_fn_name, e.prefix_list,
                                     output_model, after)
          /\ schedule' = Append(schedule, _module_fn_instruction(e))
          /\ disp' = Append(disp, [branch |-> "dispatch", pos |-> Len(schedule) + 1])
          /\ elem_i' = elem_i + 1
          /\ UNCHANGED << gen_module_allowlist, gen_module_blocklist,
                          _generated_allowlist_modules, trace, pc, raw_schedule,
                          consts, params, results >>

\* trace_elem.fn_type == FnType.FUNCTION
DispatchesFunction == InDispatch /\ CurElem.fn_type = "FUNCTION"

StepDispatchFunction ==
    /\ DispatchesFunction
    /\ EmitPlain(_torch_fn_instruction(CurElem))

\* the dispatch with the FnType.ATTRIBUTE case left out
DispatchesTensorMethodOnly == InDispatch /\ CurElem.fn_type = "METHOD"

\* trace_elem.fn_type == FnType.METHOD or FnType.ATTRIBUTE
DispatchesTensor == InDispatch /\ CurElem.fn_type \in {"METHOD", "ATTRIBUTE"}

StepDispatchTensor ==
    /\ DispatchesTensor
    /\ EmitPlain(_tensor_fn_instruction(CurElem))

\* trace_elem.fn_type == FnType.SCRIPTMODULE
DispatchesScript == InDispatch /\ CurElem.fn_type = "SCRIPTMODULE"

StepDispatchScript ==
    /\ DispatchesScript
    /\ EmitModule("dispatch", CurElem.fn, FALSE)

SetLast(seq, x) == [seq EXCEPT ![Len(seq)] = x]

\* return schedule; consts, params = self._gen_constants_parameters(schedule, trace)
GenConstantsParameters ==
    /\ pc = "schedule"
    /\ elem_i > Len(trace.trace_elem_list)
    /\ raw_schedule' = schedule
    /\ LET r == _gen_constants_parameters(schedule, trace)
       IN /\ consts' = r.consts
          /\ params' = r.params
          /\ IF r.status = "ok"
             THEN /\ pc' = "apply"
                  /\ results' = results
             ELSE /\ pc' = "idle"
                  /\ results' = SetLast(results,
                                        [results[Len(results)] EXCEPT !.status = r.status])
    /\ UNCHANGED << gen_module_allowlist, gen_module_blocklist,
                    _generated_allowlist_modules, trace, elem_i, schedule, output_model,
                    disp, attach_log >>

\* self._apply_consts_params(schedule, consts, params) and the return
ApplyConstsParams ==
    /\ pc = "apply"
    /\ LET final == _apply_consts_params(schedule, consts, params)
           model == [output_model EXCEPT
                        !.schedule = final,
                        !.input_index_list = trace.model_input_index_list,
                        !.output_index_list = trace.model_output_index_list]
       IN /\ schedule' = final
          /\ output_model' = model
          /\ results' = SetLast(results,
                                [results[Len(results)] EXCEPT
                                    !.status = "ok", !.model = model])
    /\ pc' = "idle"
    /\ UNCHANGED << gen_module_allowlist, gen_module_blocklist,
                    _generated_allowlist_modules, trace, elem_i, raw_schedule, consts,
                    params, disp, attach_log >>

\* ModuleGenerator(gen_module_allowlist, gen_module_blocklist)
Init ==
    /\ \E cfg \in Configs :
          /\ gen_module_allowlist = cfg.allow
          /\ gen_module_blocklist = cfg.block
    /\ _generated_allowlist_modules = <<>>
    /\ trace = NoTrace
    /\ pc = "idle"
    /\ elem_i = 1
    /\ schedule = <<>>
    /\ raw_schedule = <<>>
    /\ output_model = EmptyModel
    /\ consts = <<>>
    /\ params = <<>>
    /\ disp = <<>>
    /\ results = <<>>
    /\ attach_log = <<>>

Next ==
    \/ FirstCall
    \/ RepeatCall
    \/ StepAncestor
    \/ StepDirect
    \/ StepSkip
    \/ StepDispatchModule
    \/ StepDispatchFunction
    \/ StepDispatchTensor
    \/ StepDispatchScript
    \/ GenConstantsParameters
    \/ ApplyConstsParams

Spec == Init /\ [][Next]_vars

(***************************************************************************)
(* The hierarchy builder on its own: _add_module called on one container.  *)
(***************************************************************************)
AttachNames == {"a", "b", "c"}
AttachPrefixes == UNION {[1..n -> {"a", "b"}] : n \in 0..2}
AttachModules == {"conv", "lin"}

\* self._add_module(module, module_name, prefix_list, output_model)
AttachCall ==
    /\ pc = "attach"
    /\ Len(attach_log) < MaxAttach
    /\ \E module \in AttachModules, name \in AttachNames, prefix_list \in AttachPrefixes :
          LET after == _add_module(module, name, prefix_list, output_model)
          IN /\ output_model' = after
             /\ attach_log' = LogAttach(module, name, prefix_list, output_model, after)
    /\ UNCHANGED << gen_module_allowlist, gen_module_blocklist,
                    _generated_allowlist_modules, trace, pc, elem_i, schedule,
                    raw_schedule, consts, params, disp, results >>

\* a fresh CodegenModule() and a generator with the default lists
InitAttach ==
    /\ gen_module_allowlist = default_gen_module_allowlist
    /\ gen_module_blocklist = default_gen_module_blocklist
    /\ _generated_allowlist_modules = <<>>
    /\ trace = NoTrace
    /\ pc = "attach"
    /\ elem_i = 1
    /\ schedule = <<>>
    /\ raw_schedule = <<>>
    /\ output_model = EmptyModel
    /\ consts = <<>>
    /\ params = <<>>
    /\ disp = <<>>
    /\ results = <<>>
    /\ attach_log = <<>>

NextAttach == AttachCall

SpecAttach == InitAttach /\ [][NextAttach]_vars

(***************************************************************************)
(* Vocabulary of the properties.                                           *)
(***************************************************************************)
\* the last gen_model call returned an artifact
Returned == pc = "idle" /\ results # <<>> /\ results[Len(results)].status = "ok"

\* the schedule as _gen_schedule built it, before any substitution
RawSchedule == IF pc = "schedule" THEN schedule ELSE raw_schedule

\* the references occurring in an argument structure, at any depth
RECURSIVE RefsIn(_)
RefsIn(node) ==
    IF node.k = "ref" THEN {node.ref}
    ELSE IF node.k \in {"list", "tuple"}
    THEN UNION {RefsIn(node.items[j]) : j \in 1..Len(node.items)}
    ELSE IF node.k = "dict"
    THEN UNION {RefsIn(node.vals[j]) : j \in 1..Len(node.vals)}
    ELSE {}

Consumed(inst) == RefsIn(inst.input_args_list) \cup RefsIn(inst.input_kwargs_dict)

ModelInputs == Range(trace.model_input_index_list)

ProducedBefore(sched, k) == {sched[j].output_index : j \in 1..(k - 1)}

Produced(sched) == {sched[j].output_index : j \in 1..Len(sched)}

\* consumed by the raw schedule, produced by no instruction, no model input
FreeRefs ==
    (UNION {Consumed(raw_schedule[k]) : k \in 1..Len(raw_schedule)})
        \ (Produced(raw_schedule) \cup ModelInputs)

MatchesBothLists(m) ==
    /\ m \in Modules
    /\ \E g \in 1..Len(gen_module_allowlist) : EntryMatches(gen_module_allowlist[g], m)
    /\ \E g \in 1..Len(gen_module_blocklist) : EntryMatches(gen_module_blocklist[g], m)

Eligible(m) ==
    /\ \E g \in 1..Len(gen_module_allowlist) : EntryMatches(gen_module_allowlist[g], m)
    /\ ~ \E g \in 1..Len(gen_module_blocklist) : EntryMatches(gen_module_blocklist[g], m)

\* positions of the eligible proper ancestors in a context list
EligibleAncestors(e) ==
    {j \in 1..(Len(e.module_context_list) - 1) : Eligible(e.module_context_list[j])}

ElemAt(i) == trace.trace_elem_list[i]

Preserved(i) == disp[i].branch \in {"ancestor", "direct"}

SameContext(i, j) ==
    /\ InnerModule(ElemAt(i)) = InnerModule(ElemAt(j))
    /\ ElemAt(i).module_input_list = ElemAt(j).module_input_list
    /\ ElemAt(i).module_output = ElemAt(j).module_output

(***************************************************************************)
(* Properties.                                                             *)
(***************************************************************************)

\* C1: after gen_model, every reference consumed by an instruction of the
\* raw schedule is in exactly one of four classes (output of an earlier
\* instruction, model input, key of consts, key of params), and every
\* reference left in the final arguments is an earlier instruction's output
\* or a model input.
C1_EveryReferenceClassified ==
    Returned =>
        \A k \in 1..Len(raw_schedule) :
            /\ \A r \in Consumed(raw_schedule[k]) :
                  Cardinality({c \in {"earlier", "input", "const", "param"} :
                      \/ c = "earlier" /\ r \in ProducedBefore(raw_schedule, k)
                      \/ c = "input" /\ r \in ModelInputs
                      \/ c = "const" /\ r \in DOMAIN consts
                      \/ c = "param" /\ r \in DOMAIN params}) = 1
            /\ \A r \in Consumed(schedule[k]) :
                  r \in ProducedBefore(schedule, k) \cup ModelInputs

\* C2 (as claimed): no module-call instruction of the schedule, from
\* whichever branch, has a callable that matches both the allowlist and the
\* blocklist.
C2_NoBlockedModuleCall ==
    \A k \in 1..Len(schedule) :
        schedule[k].fn_type = "MODULE" => ~ MatchesBothLists(schedule[k].fn)

\* C2 (amended): an instruction emitted by the ancestor or the direct branch
\* never has a callable that matches both lists; only call-kind dispatch (a
\* module or script-module element) can emit one.
C2_PreservedModuleNotBlocked ==
    \A i \in 1..Len(disp) :
        Preserved(i) => ~ MatchesBothLists(schedule[disp[i].pos].fn)

\* a preserved-module instruction was emitted for an element that has a
\* module matching both lists in its context
C2_Witness ==
    \E i \in 1..Len(disp) :
        /\ Preserved(i)
        /\ \E j \in 1..Len(ElemAt(i).module_context_list) :
              MatchesBothLists(ElemAt(i).module_context_list[j])

\* C3: with two or more eligible ancestors, the ancestor branch emits the
\* outermost eligible ancestor as callable, with that ancestor's declared
\* inputs and output as the instruction's inputs and output.
C3_OutermostAncestorWithItsOwnIO ==
    \A i \in 1..Len(disp) :
        LET e == ElemAt(i)
            anc == EligibleAncestors(e)
            top == e.module_context_list[CHOOSE j \in anc : \A h \in anc : j <= h]
            inst == RawSchedule[disp[i].pos]
        IN (disp[i].branch = "ancestor" /\ Cardinality(anc) >= 2) =>
              /\ inst.fn = top
              /\ inst.fn_type = "MODULE"
              /\ Len(inst.input_args_list.items) = Len(DeclaredIO[top].ins)
              /\ \A j \in 1..Len(inst.input_args_list.items) :
                    /\ inst.input_args_list.items[j].k = "ref"
                    /\ index_map[inst.input_args_list.items[j].ref] = DeclaredIO[top].ins[j]
              /\ index_map[inst.output_index] = DeclaredIO[top].out

\* C4 (as claimed): among the elements that share module, input list and
\* output, at most one emits a module-call instruction.
C4_OneModuleCallPerContext ==
    \A i \in 1..Len(disp) :
        Cardinality({j \in 1..Len(disp) :
            /\ SameContext(i, j)
            /\ disp[j].pos > 0
            /\ schedule[disp[j].pos].fn_type = "MODULE"}) <= 1

\* C4 (amended): among the elements that share module, input list and
\* output, at most one emits a module-call instruction outside call-kind
\* dispatch, that is by the ancestor or the direct branch.
C4_OnePreservedCallPerContext ==
    \A i \in 1..Len(disp) :
        Cardinality({j \in 1..Len(disp) :
            /\ SameContext(i, j)
            /\ disp[j].pos > 0
            /\ schedule[disp[j].pos].fn_type = "MODULE"
            /\ disp[j].branch # "dispatch"}) <= 1

\* two elements with the same context, the first one preserved
C4_Witness ==
    \E i \in 1..Len(disp), j \in 1..Len(disp) :
        i < j /\ SameContext(i, j) /\ Preserved(i)

\* C5: an element of a directly eligible module of which only contexts with
\* another output are recorded is not a duplicate: the step emits a module
\* instruction for it and records a second context.
C5_DifferentOutputEmitsAgain ==
    [][ ( /\ InLoop
          /\ InAllowlist(CurElem)
          /\ \E k \in 1..Len(_generated_allowlist_modules) :
                _generated_allowlist_modules[k].m = InnerModule(CurElem)
          /\ \A k \in 1..Len(_generated_allowlist_modules) :
                _generated_allowlist_modules[k].m = InnerModule(CurElem) =>
                    _generated_allowlist_modules[k].o # CurElem.module_output )
        => ( /\ Len(schedule') = Len(schedule) + 1
             /\ schedule'[Len(schedule')].fn_type = "MODULE"
             /\ index_map[schedule'[Len(schedule')].output_index] = CurElem.module_output
             /\ _generated_allowlist_modules' =
                    Append(_generated_allowlist_modules, Ctx(CurElem)) ) ]_vars

\* the same directly eligible module preserved twice, with different outputs
C5_Witness ==
    \E i \in 1..Len(disp), j \in 1..Len(disp) :
        /\ i < j
        /\ InnerModule(ElemAt(i)) = InnerModule(ElemAt(j))
        /\ ElemAt(i).module_input_list = ElemAt(j).module_input_list
        /\ ElemAt(i).module_output # ElemAt(j).module_output
        /\ disp[i].branch = "direct" /\ disp[j].branch = "direct"
        /\ Len(_generated_allowlist_modules) >= 2

\* C6: a gen_model call starts with a tracker holding no entry of an
\* earlier call, and a second call with the same trace returns the schedule
\* the first call returned.
C6_CallsAreInvocationLocal ==
    \A c \in 2..Len(results) :
        /\ results[c].start_tracker = <<>>
        /\ (results[c].status = "ok" /\ results[1].status = "ok") =>
              results[c].model.schedule = results[1].model.schedule

\* C7: the direct branch emits a module-call of the innermost module on the
\* module's input list and output; a function, method or attribute element
\* in dispatch emits its own call kind, arguments and output; the artifact
\* carries the trace's input and output lists.
C7_InstructionContents ==
    /\ \A i \in 1..Len(disp) :
          LET e == ElemAt(i)
              inst == RawSchedule[disp[i].pos]
          IN /\ disp[i].branch = "direct" =>
                  /\ inst.fn_type = "MODULE"
                  /\ inst.fn = e.module_context_list[Len(e.module_context_list)]
                  /\ inst.input_args_list.k = "list"
                  /\ Len(inst.input_args_list.items) = Len(e.module_input_list)
                  /\ \A j \in 1..Len(e.module_input_list) :
                        /\ inst.input_args_list.items[j].k = "ref"
                        /\ index_map[inst.input_args_list.items[j].ref]
                               = e.module_input_list[j]
                  /\ inst.input_kwargs_dict = [k |-> "dict", keys |-> <<>>, vals |-> <<>>]
                  /\ index_map[inst.output_index] = e.module_output
             /\ (disp[i].branch = "dispatch"
                    /\ e.fn_type \in {"FUNCTION", "METHOD", "ATTRIBUTE"}) =>
                  /\ inst.fn_type = e.fn_type
                  /\ inst.fn = e.fn
                  /\ inst.input_args_list = e.fn_args_index
                  /\ inst.input_kwargs_dict = e.fn_kwargs_index
                  /\ inst.output_index = e.fn_out_index
    /\ Returned =>
          /\ output_model.input_index_list = trace.model_input_index_list
          /\ output_model.output_index_list = trace.model_output_index_list

\* the trace [A(x)->y, B(y)->z], A directly eligible and B a function of
\* the root, returned as [module-call A, function B]
C7_Witness ==
    /\ Returned
    /\ Len(disp) = 2
    /\ disp[1].branch = "direct" /\ disp[2].branch = "dispatch"
    /\ Len(schedule) = 2
    /\ schedule[1].fn = "conv" /\ schedule[1].fn_type = "MODULE"
    /\ schedule[1].input_args_list = List(<<Ref("ix")>>)
    /\ schedule[1].output_index = "iy"
    /\ schedule[2].fn_type = "FUNCTION"
    /\ schedule[2].input_args_list = Tuple(<<Ref("iy")>>)
    /\ schedule[2].output_index = "iz"
    /\ output_model.input_index_list = <<"ix">>
    /\ output_model.output_index_list = <<"iz">>

\* raw and final argument structures agree in shape, a free reference leaf
\* is replaced by the value resolved for it, any other leaf is unchanged
RECURSIVE ResolvedFrom(_, _)
ResolvedFrom(raw, fin) ==
    IF raw.k \in {"list", "tuple"}
    THEN /\ fin.k = raw.k
         /\ Len(fin.items) = Len(raw.items)
         /\ \A j \in 1..Len(raw.items) : ResolvedFrom(raw.items[j], fin.items[j])
    ELSE IF raw.k = "dict"
    THEN /\ fin.k = "dict"
         /\ fin.keys = raw.keys
         /\ Len(fin.vals) = Len(raw.vals)
         /\ \A j \in 1..Len(raw.vals) : ResolvedFrom(raw.vals[j], fin.vals[j])
    ELSE IF raw.k = "ref" /\ raw.ref \in FreeRefs
    THEN /\ raw.ref \in DOMAIN consts \cup DOMAIN params
         /\ fin.k = "val"
         /\ fin.val = IF raw.ref \in DOMAIN consts THEN consts[raw.ref]
                      ELSE params[raw.ref]
    ELSE IF raw.k = "ref" /\ raw.ref \notin DOMAIN consts \cup DOMAIN params
    THEN fin = raw
    ELSE TRUE

\* C8: after _apply_consts_params every free reference is replaced by its
\* resolved value and occurs nowhere in the final schedule, a reference in
\* neither map is unchanged, and the container shape is preserved.
C8_FreeReferencesSubstituted ==
    Returned =>
        /\ Len(schedule) = Len(raw_schedule)
        /\ \A k \in 1..Len(schedule) :
              /\ ResolvedFrom(raw_schedule[k].input_args_list, schedule[k].input_args_list)
              /\ ResolvedFrom(raw_schedule[k].input_kwargs_dict,
                              schedule[k].input_kwargs_dict)
              /\ Consumed(schedule[k]) \cap FreeRefs = {}

\* a free scalar reference nested in a list inside a tuple, and one in a
\* keyword argument, were replaced by their values 3 and 5
C8_Witness ==
    /\ Returned
    /\ {"iw", "ip"} \subseteq FreeRefs
    /\ \E k \in 1..Len(schedule) :
          /\ raw_schedule[k].input_args_list =
                 Tuple(<<List(<<Ref("iy"), Tuple(<<Ref("iw"), Ref("in")>>)>>)>>)
          /\ schedule[k].input_args_list.items[1].items[1] = Ref("iy")
          /\ schedule[k].input_args_list.items[1].items[2].items[1].val.item = 3
          /\ schedule[k].input_kwargs_dict.vals[1].val.item = 5

\* C9: gen_model returns no artifact when a free reference of the schedule
\* resolves to no underlying value (none).
C9_AbortsOnUnresolvedReference ==
    Returned => \A r \in FreeRefs : ObjInfo[index_map[r]].type # "NoneType"

\* C10: from an empty container, two attaches of leaves with different
\* names under the same multi-segment prefix leave one chain of len(prefix)
\* containers with both leaves under the last one, and the second attach
\* creates no container.
C10_SharedContainerChain ==
    ( /\ pc = "attach"
      /\ Len(attach_log) = 2
      /\ attach_log[1].prefix_list = attach_log[2].prefix_list
      /\ Len(attach_log[1].prefix_list) >= 2
      /\ attach_log[1].module_name # attach_log[2].module_name )
    => LET P == attach_log[1].prefix_list
           n == Len(P)
           at(j) == IF j = 0 THEN RootNode ELSE ContainerNode(j)
       IN /\ output_model.created = n
          /\ attach_log[1].created = n
          /\ attach_log[2].created = 0
          /\ {x \in DOMAIN output_model.tree : x.kind = "container"} = {at(j) : j \in 1..n}
          /\ \A j \in 1..n :
                output_model.tree[at(j - 1)] = << [name |-> P[j], node |-> at(j)] >>
          /\ output_model.tree[at(n)] =
                << [name |-> attach_log[1].module_name,
                    node |-> ModuleNode(attach_log[1].module)],
                   [name |-> attach_log[2].module_name,
                    node |-> ModuleNode(attach_log[2].module)] >>

\* two leaves with different names were attached under one two-segment path
C10_Witness ==
    /\ pc = "attach"
    /\ Len(attach_log) = 2
    /\ attach_log[1].prefix_list = attach_log[2].prefix_list
    /\ Len(attach_log[1].prefix_list) = 2
    /\ attach_log[1].module_name # attach_log[2].module_name
    /\ attach_log[1].module # attach_log[2].module

\* the branches of the loop body that the current element takes
C11_BranchesTaken ==
    {b \in {"ancestor", "direct", "skip", "module", "function", "tensor", "script"} :
        \/ b = "ancestor" /\ TakesAncestor
        \/ b = "direct" /\ TakesDirect
        \/ b = "skip" /\ TakesSkip
        \/ b = "module" /\ DispatchesModule
        \/ b = "function" /\ DispatchesFunction
        \/ b = "tensor" /\ DispatchesTensor
        \/ b = "script" /\ DispatchesScript}

\* the elements before position i that were not skipped
C11_Kept(i) == {j \in 1..i : disp[j].branch # "skip"}

\* C11: every trace element takes exactly one disposition (so the assertion
\* on inst never fails); it is skipped iff its innermost module is directly
\* eligible and already generated; every other element appends exactly one
\* instruction, so the schedule is as long as the number of non-skipped
\* elements and keeps their order.
C11_OneDispositionPerElement ==
    /\ [](InLoop => Cardinality(C11_BranchesTaken) = 1)
    /\ [](pc = "schedule" =>
            /\ Len(disp) = elem_i - 1
            /\ Len(schedule) = Cardinality(C11_Kept(Len(disp)))
            /\ \A i \in 1..Len(disp) :
                  disp[i].branch # "skip" =>
                      /\ disp[i].pos = Cardinality(C11_Kept(i))
                      /\ schedule[disp[i].pos].prefix = ElemAt(i).prefix)
    /\ [][ InLoop =>
            LET skipped == /\ InAllowlist(CurElem)
                           /\ _is_module_already_gen(InnerModule(CurElem), CurElem)
            IN /\ elem_i' = elem_i + 1
               /\ Len(disp') = Len(disp) + 1
               /\ (disp'[Len(disp')].branch = "skip") <=> skipped
               /\ skipped => schedule' = schedule
               /\ ~ skipped =>
                     /\ Len(schedule') = Len(schedule) + 1
                     /\ SubSeq(schedule', 1, Len(schedule)) = schedule ]_vars

\* a walk that skipped one element and dispatched an attribute access
C11_Witness ==
    /\ pc = "schedule"
    /\ elem_i > Len(trace.trace_elem_list)
    /\ Len(disp) = 2
    /\ disp[1].branch = "skip"
    /\ disp[2].branch = "dispatch"
    /\ ElemAt(2).fn_type = "ATTRIBUTE"
    /\ Len(schedule) = 1

\* the outermost eligible proper ancestor of element i, "None" without one
C12_Top(i) ==
    LET anc == EligibleAncestors(ElemAt(i))
    IN IF anc = {} THEN "None"
       ELSE ElemAt(i).module_context_list[CHOOSE j \in anc : \A h \in anc : j <= h]

\* C12: elements of different innermost modules inside the same eligible
\* ancestor P yield, together, exactly one instruction, a module-call of P.
C12_AncestorSubtreeIsOneInstruction ==
    \A i \in 1..Len(disp), j \in 1..Len(disp) :
        ( /\ i < j
          /\ C12_Top(i) # "None"
          /\ C12_Top(i) = C12_Top(j)
          /\ InnerModule(ElemAt(i)) # InnerModule(ElemAt(j)) )
        => LET emitted == {k \in {i, j} : disp[k].pos > 0}
           IN /\ Cardinality(emitted) = 1
              /\ \A k \in emitted :
                    /\ RawSchedule[disp[k].pos].fn = C12_Top(i)
                    /\ RawSchedule[disp[k].pos].fn_type = "MODULE"

\* C13: the free references are split by the type of their underlying
\* value: a learnable parameter is a key of params only, any other value a
\* key of consts only, and the two maps together hold all free references.
C13_PartitionByValueType ==
    (pc = "apply" \/ Returned) =>
        /\ \A r \in FreeRefs :
              IF ObjInfo[index_map[r]].type = "Parameter"
              THEN r \in DOMAIN params /\ r \notin DOMAIN consts
              ELSE r \in DOMAIN consts /\ r \notin DOMAIN params
        /\ DOMAIN consts \cap DOMAIN params = {}
        /\ DOMAIN consts \cup DOMAIN params = FreeRefs

\* some recorded context has the module, the output and exactly the input
\* list (same length, same elements) of the trace element
C14_ExactContextRecorded(trace_elem) ==
    \E k \in 1..Len(_generated_allowlist_modules) :
        /\ _generated_allowlist_modules[k].m = InnerModule(trace_elem)
        /\ _generated_allowlist_modules[k].o = trace_elem.module_output
        /\ _generated_allowlist_modules[k].i_list = trace_elem.module_input_list

\* C14: an element is a duplicate by condition (a) iff a recorded context
\* has its module, its output and an input list of the same length with the
\* same elements; a recorded list that is empty or a proper prefix of the
\* element's list (or the reverse) does not make it a duplicate.
C14_DuplicateIffSameInputList ==
    InLoop =>
        (_is_module_already_gen(InnerModule(CurElem), CurElem)
            <=> C14_ExactContextRecorded(CurElem))

\* C15: an element is already generated whenever a module of its context
\* list is recorded in the tracker as preserved, whatever the element's own
\* module input list and output.
C15_PreservedContextMeansGenerated ==
    InLoop =>
        ( (\E j \in 1..Len(CurElem.module_context_list) :
             \E k \in 1..Len(_generated_allowlist_modules) :
                 _generated_allowlist_modules[k].m = CurElem.module_context_list[j])
          => _is_module_already_gen(InnerModule(CurElem), CurElem) )

\* C16: the tracker never holds two entries with the same module, input
\* list and output, in one gen_model call or across calls; exactly one entry
\* is appended by a step of the ancestor or the direct branch, and no other
\* step changes the tracker.
C16_TrackerEntriesDistinct ==
    /\ [](\A a \in 1..Len(_generated_allowlist_modules) :
            \A b \in 1..Len(_generated_allowlist_modules) :
                a # b => _generated_allowlist_modules[a] # _generated_allowlist_modules[b])
    /\ [][ IF /\ Len(disp') = Len(disp) + 1
              /\ disp'[Len(disp')].branch \in {"ancestor", "direct"}
           THEN _generated_allowlist_modules' =
                    Append(_generated_allowlist_modules, Ctx(CurElem))
           ELSE _generated_allowlist_modules' = _generated_allowlist_modules ]_vars

\* a second call skipped both elements of the trace while the tracker held
\* the two contexts of one module that the first call recorded
C16_Witness ==
    /\ Len(results) = 2
    /\ Len(_generated_allowlist_modules) = 2
    /\ _generated_allowlist_modules[1].m = _generated_allowlist_modules[2].m
    /\ Len(disp) = 2
    /\ disp[1].branch = "skip" /\ disp[2].branch = "skip"

\* the node found in the tree by following a name path, if there is one
RECURSIVE Resolve(_, _, _)
Resolve(tree, node, path) ==
    IF path = <<>> THEN node
    ELSE IF HasChild(tree, node, Head(path))
    THEN Resolve(tree, ChildNamed(tree, node, Head(path)), Tail(path))
    ELSE [kind |-> "missing", name |-> "", n |-> 0]

\* C17 (as claimed): a step of call-kind dispatch on an element whose called
\* entity is a module attaches the module under its own name and appends an
\* instruction of call kind plain-function-call, not module-call, with the
\* element's own arguments and output.
C17_ModuleFnIsPlainFunctionCall ==
    [][ DispatchesModule =>
          LET e == CurElem
              inst == schedule'[Len(schedule')]
          IN /\ Len(schedule') = Len(schedule) + 1
             /\ Resolve(output_model'.tree, RootNode,
                        Append(e.prefix_list, e.module_fn_name)) = ModuleNode(e.fn)
             /\ inst.fn_type = "FUNCTION"
             /\ inst.fn_type # "MODULE"
             /\ inst.input_args_list = e.fn_args_index
             /\ inst.input_kwargs_dict = e.fn_kwargs_index
             /\ inst.output_index = e.fn_out_index ]_vars

\* C17 (amended): the step attaches the module under its own name and
\* appends an instruction that carries the element's recorded call kind,
\* which is module, with the element's own arguments and output.
C17_ModuleFnKeepsCallKind ==
    [][ DispatchesModule =>
          LET e == CurElem
              inst == schedule'[Len(schedule')]
          IN /\ Len(schedule') = Len(schedule) + 1
             /\ Resolve(output_model'.tree, RootNode,
                        Append(e.prefix_list, e.module_fn_name)) = ModuleNode(e.fn)
             /\ inst.fn = e.fn
             /\ inst.fn_type = e.fn_type
             /\ inst.fn_type = "MODULE"
             /\ inst.input_args_list = e.fn_args_index
             /\ inst.input_kwargs_dict = e.fn_kwargs_index
             /\ inst.output_index = e.fn_out_index ]_vars

\* a module element inside a module with inputs and an output of its own
\* went through call-kind dispatch and its module is in the tree
C17_Witness ==
    \E i \in 1..Len(disp) :
        /\ disp[i].branch = "dispatch"
        /\ ElemAt(i).fn_type = "MODULE"
        /\ ElemAt(i).module_input_list # <<>>
        /\ RawSchedule[disp[i].pos].fn = "leaf"
        /\ Resolve(output_model.tree, RootNode,
                   Append(ElemAt(i).prefix_list, "leaf")) = ModuleNode("leaf")

\* C18: an element with an eligible ancestor yields the ancestor's module
\* instruction or nothing, never a primitive-call instruction.
C18_NoPrimitiveUnderEligibleAncestor ==
    \A i \in 1..Len(disp) :
        C12_Top(i) # "None" =>
            \/ disp[i].pos = 0
            \/ /\ RawSchedule[disp[i].pos].fn_type = "MODULE"
               /\ RawSchedule[disp[i].pos].fn = C12_Top(i)
               /\ disp[i].branch = "ancestor"

\* C19: every module attached by an _add_module call of the walk is still
\* found in the output tree at the name path it was attached under.
C19_AttachedModulesStayReachable ==
    \A k \in 1..Len(attach_log) :
        Resolve(output_model.tree, RootNode,
                Append(attach_log[k].prefix_list, attach_log[k].module_name))
            = ModuleNode(attach_log[k].module)

====
